---- MODULE Spec2Model ----
(***************************************************************************)
(* Model of streamlit_tab.py: one Streamlit script that, on a button       *)
(* press, fetches a price series, company metadata and six financial       *)
(* statements from the market-data provider, sends a prompt to the LLM     *)
(* endpoint and renders three tabs.                                        *)
(*                                                                         *)
(* Text is a sequence of string pieces whose concatenation is the Python   *)
(* string; an f-string or a template is the sequence of its literal pieces *)
(* and its interpolated values.  A float is a fixed-point number with four *)
(* decimals: [t |-> "float", v |-> n] is n / 10000.                        *)
(***************************************************************************)
EXTENDS Integers, Sequences, FiniteSets, TLC

VARIABLES
    pc,                    \* line of the script about to execute
    run,                   \* number of script runs started so far
    analyze_button,        \* st.button's value in the current run
    symbol, start_date, end_date,      \* sidebar inputs of the current run
    stock_data, info,                  \* provider responses (lines 103, 105)
    technical_data, fundamental_data, fundamental_data_str,
    statements,            \* the six statement variables of lines 113-118
    analysis,              \* the LLM response (line 126)
    spinner,               \* st.spinner of line 101 is showing
    left_col, right_col, tab2, tab3,   \* elements written to each container
    log,                   \* external calls of the current run, in order
    failed                 \* the step whose exception ended the run

vars == <<pc, run, analyze_button, symbol, start_date, end_date, stock_data,
          info, technical_data, fundamental_data, fundamental_data_str,
          statements, analysis, spinner, left_col, right_col, tab2, tab3,
          log, failed>>

inputVars == <<analyze_button, symbol, start_date, end_date>>
dataVars == <<stock_data, info, technical_data, fundamental_data,
              fundamental_data_str, statements, analysis>>
viewVars == <<left_col, right_col, tab2, tab3>>

----------------------------------------------------------------------------
(* Bounds *)

MaxRuns == 2        \* script runs per behaviour
MaxRows == 2        \* rows of a fetched price series
MaxPeriods == 4     \* periods (columns) of a quarterly income statement
MaxInt == 1         \* integer metadata values are 150 * (0 .. MaxInt)

----------------------------------------------------------------------------
(* Python values and their str() *)

Unset == [t |-> "unset", v |-> 0]          \* a name not bound in this run
None == [t |-> "none", v |-> 0]
NaN == [t |-> "nan", v |-> 0]
PyStr(s) == [t |-> "str", v |-> s]
PyInt(i) == [t |-> "int", v |-> i]
PyFloat(n) == [t |-> "float", v |-> n]

NA == PyStr("N/A")

DigitChars == <<"0", "1", "2", "3", "4", "5", "6", "7", "8", "9">>
Digit(d) == DigitChars[d + 1]

RECURSIVE NatStr(_)
NatStr(n) == IF n < 10 THEN Digit(n) ELSE NatStr(n \div 10) \o Digit(n % 10)

IntStr(i) == IF i < 0 THEN "-" \o NatStr(-i) ELSE NatStr(i)

RECURSIVE Pad(_, _)
Pad(f, w) == IF w = 1 THEN Digit(f % 10)
             ELSE Pad(f \div 10, w - 1) \o Digit(f % 10)

RECURSIVE Frac(_, _)
Frac(f, w) == IF w > 1 /\ f % 10 = 0 THEN Frac(f \div 10, w - 1) ELSE Pad(f, w)

Abs(n) == IF n < 0 THEN -n ELSE n

\* repr of a float: shortest digits, always with a fractional part
FloatStr(n) ==
    (IF n < 0 THEN "-" ELSE "") \o NatStr(Abs(n) \div 10000) \o "."
        \o Frac(Abs(n) % 10000, 4)

\* what "{x}" interpolates in an f-string
Str(x) ==
    CASE x.t = "int" -> IntStr(x.v)
      [] x.t = "float" -> FloatStr(x.v)
      [] x.t = "none" -> "None"
      [] x.t = "nan" -> "nan"
      [] x.t = "str" -> x.v

----------------------------------------------------------------------------
(* extract_specific_fundamental_data, format_specific_fundamental_data *)

KeyPrice == "Current Price (Harga Saham Saat Ini)"
KeyCap == "Market Cap (Kapitalisasi Pasar)"
KeyPE == "Price to Earnings Ratio (P/E Ratio)"
KeyTrailing == "Trailing P/E"
KeyForward == "Forward P/E"
KeyYield == "Dividend Yield (Hasil Dividen)"
KeyROE == "Return on Equity (ROE)"

\* dict.get(key, default)
Get(d, key, default) == IF key \in DOMAIN d THEN d[key] ELSE default

ExtractForwardSlip(details) ==
    [k \in {KeyPrice, KeyCap, KeyPE, KeyYield, KeyROE} |->
        CASE k = KeyPrice -> Get(details, "currentPrice", NA)
          [] k = KeyCap -> Get(details, "marketCap", NA)
          [] k = KeyPE -> [j \in {KeyTrailing, KeyForward} |->
                              Get(details, "trailingPE", NA)]
          [] k = KeyYield -> Get(details, "dividendYield", NA)
          [] k = KeyROE -> Get(details, "returnOnEquity", NA)]

extract_specific_fundamental_data(details) ==
    [k \in {KeyPrice, KeyCap, KeyPE, KeyYield, KeyROE} |->
        CASE k = KeyPrice -> Get(details, "currentPrice", NA)
          [] k = KeyCap -> Get(details, "marketCap", NA)
          [] k = KeyPE -> [j \in {KeyTrailing, KeyForward} |->
                              IF j = KeyTrailing
                                  THEN Get(details, "trailingPE", NA)
                                  ELSE Get(details, "forwardPE", NA)]
          [] k = KeyYield -> Get(details, "dividendYield", NA)
          [] k = KeyROE -> Get(details, "returnOnEquity", NA)]

\* the ratio as a percentage: what a formatter that scaled would print
Times100(x) == IF x.t \in {"int", "float"} THEN [x EXCEPT !.v = 100 * x.v] ELSE x

FormatScaled(specific_data) ==
    << "**Current Price (Harga Saham Saat Ini)**: ",
       Str(specific_data[KeyPrice]), " IDR\n\n",
       "**Market Cap (Kapitalisasi Pasar)**: ",
       Str(specific_data[KeyCap]), " IDR\n\n",
       "**Price to Earnings Ratio (P/E Ratio)**:\n",
       "  - Trailing P/E: ", Str(specific_data[KeyPE][KeyTrailing]), "\n",
       "  - Forward P/E: ", Str(specific_data[KeyPE][KeyForward]), "\n\n",
       "**Dividend Yield (Hasil Dividen)**: ",
       Str(Times100(specific_data[KeyYield])), "%", "\n\n",
       "**Return on Equity (ROE)**: ",
       Str(Times100(specific_data[KeyROE])), "%" >>

format_specific_fundamental_data(specific_data) ==
    << "**Current Price (Harga Saham Saat Ini)**: ",
       Str(specific_data[KeyPrice]), " IDR\n\n",
       "**Market Cap (Kapitalisasi Pasar)**: ",
       Str(specific_data[KeyCap]), " IDR\n\n",
       "**Price to Earnings Ratio (P/E Ratio)**:\n",
       "  - Trailing P/E: ", Str(specific_data[KeyPE][KeyTrailing]), "\n",
       "  - Forward P/E: ", Str(specific_data[KeyPE][KeyForward]), "\n\n",
       "**Dividend Yield (Hasil Dividen)**: ",
       Str(specific_data[KeyYield]), "%", "\n\n",
       "**Return on Equity (ROE)**: ",
       Str(specific_data[KeyROE]), "%" >>

----------------------------------------------------------------------------
(* pandas objects: a DataFrame is [asof, columns, index, cells], with      *)
(* cells[r][c] the value of row r in column c; asof is the run in which    *)
(* the provider produced it.                                               *)

Range(s) == {s[i] : i \in 1 .. Len(s)}

RECURSIVE Flatten(_)
Flatten(ss) == IF ss = <<>> THEN <<>> ELSE Head(ss) \o Flatten(Tail(ss))

\* df[[c1, c2]] raises KeyError unless every label is a column
HasColumns(df, cols) == Range(cols) \subseteq Range(df.columns)

\* df[[c1, c2]]: the listed columns, in the listed order
SelectColumns(df, cols) == [df EXCEPT !.columns = cols]

\* df[c]: one column as a sequence over the index
Column(df, c) == [r \in 1 .. Len(df.index) |-> df.cells[r][c]]

\* DataFrame.to_string() of a frame indexed by Date, without the padding
\* that aligns the columns
to_string(df) ==
    IF df.index = <<>>
        THEN << "Empty DataFrame", "\n", "Columns: [" >> \o
             (IF df.columns = <<>> THEN <<>> ELSE
                 <<Head(df.columns)>> \o
                 Flatten([c \in 1 .. Len(df.columns) - 1 |->
                             <<", ", df.columns[c + 1]>>]))
             \o << "]", "\n", "Index: []" >>
        ELSE df.columns \o << "\n", "Date" >>
             \o Flatten([r \in 1 .. Len(df.index) |->
                    << "\n", df.index[r] >>
                    \o [c \in 1 .. Len(df.columns) |-> Str(df.cells[r][df.columns[c]])]])

\* 'Total Revenue' in quarterly_income_stmt.index
HasRow(df, item) == item \in Range(df.index)

\* df.loc[item]: the row as a Series, a sequence of [x, y] over the columns
Loc(df, item) ==
    LET r == CHOOSE i \in 1 .. Len(df.index) : df.index[i] = item
    IN [c \in 1 .. Len(df.columns) |->
           [x |-> df.columns[c], y |-> df.cells[r][df.columns[c]]]]

IsNa(v) == v.t \in {"nan", "none"}

\* Series.fillna(0)
FillNa(series) ==
    [i \in 1 .. Len(series) |->
        IF IsNa(series[i].y) THEN [series[i] EXCEPT !.y = PyFloat(0)] ELSE series[i]]

\* Series.dropna()
RECURSIVE DropNa(_)
DropNa(series) ==
    IF series = <<>> THEN <<>>
    ELSE IF IsNa(Head(series).y) THEN DropNa(Tail(series))
    ELSE <<Head(series)>> \o DropNa(Tail(series))

----------------------------------------------------------------------------
(* What the provider and the LLM endpoint can answer *)

Symbols == {"AAPL", "BBCA.JK"}
Dates == {"2024-01-01", "2024-06-30"}

OHLCV == <<"Open", "High", "Low", "Close", "Volume">>

PriceRow(i) ==
    [c \in Range(OHLCV) |->
        CASE c = "Open" -> PyFloat(1000000 + 12500 * i)
          [] c = "High" -> PyFloat(1025000 + 12500 * i)
          [] c = "Low" -> PyFloat(990000 + 12500 * i)
          [] c = "Close" -> PyFloat(1005000 + 12500 * i)
          [] c = "Volume" -> PyInt(1000 * i)]

\* the provider's column sets: the usual one, and schemas lacking a column
ColumnSets == {OHLCV, <<"High", "Low", "Close", "Volume">>,
               <<"Open", "Low", "Close", "Volume">>}

PriceFrames(r) ==
    {[asof |-> r, columns |-> cols,
      index |-> [i \in 1 .. n |-> "2024-01-" \o Pad(i + 1, 2)],
      cells |-> [i \in 1 .. n |-> [c \in Range(cols) |-> PriceRow(i)[c]]]] :
        cols \in ColumnSets, n \in 0 .. MaxRows}

TrackedFields == {"currentPrice", "marketCap", "trailingPE", "forwardPE",
                  "dividendYield", "returnOnEquity"}

MetadataValues ==
    {PyInt(150 * i) : i \in 0 .. MaxInt} \cup {PyFloat(200), PyFloat(-14700), None}

\* every mapping of a subset of the tracked fields, plus an untracked one
AllDetails ==
    {m @@ ("longName" :> PyStr("Apple Inc.")) :
        m \in UNION {[present -> MetadataValues] :
                        present \in SUBSET TrackedFields}}

Canonical(f) ==
    CASE f = "currentPrice" -> PyInt(150)
      [] f = "marketCap" -> PyInt(0)
      [] f = "trailingPE" -> PyFloat(-14700)
      [] f = "forwardPE" -> PyFloat(285000)
      [] f = "dividendYield" -> PyFloat(200)
      [] f = "returnOnEquity" -> None
      [] OTHER -> PyStr("Apple Inc.")

\* the metadata mappings the script runs are explored with
InfoSamples ==
    {[f \in present \cup {"longName"} |-> Canonical(f)] :
        present \in {TrackedFields, {}, {"currentPrice", "forwardPE"}}}

Periods == [i \in 1 .. MaxPeriods |-> "Q" \o NatStr(i)]

RevenueValues == {NaN, PyFloat(900000), PyFloat(1250000)}

Statement(r, items, n, revenue) ==
    [asof |-> r, columns |-> SubSeq(Periods, 1, n), index |-> items,
     cells |-> [i \in 1 .. Len(items) |->
                   [c \in Range(SubSeq(Periods, 1, n)) |->
                       IF items[i] = "Total Revenue"
                           THEN revenue[CHOOSE k \in 1 .. n : Periods[k] = c]
                           ELSE PyFloat(10000 * i)]]]

\* every quarterly income statement of up to MaxPeriods periods
AllQuarterlyIncome(r) ==
    {Statement(r, <<"Net Income">>, n, <<>>) : n \in 0 .. MaxPeriods}
    \cup UNION {{Statement(r, <<"Net Income", "Total Revenue">>, n, rev) :
                    rev \in [1 .. n -> RevenueValues]} : n \in 0 .. MaxPeriods}

\* the statements the script runs are explored with
StatementSamples(r, name) ==
    IF name = "quarterly_income_stmt"
        THEN {Statement(r, <<"Net Income">>, MaxPeriods, <<>>),
              Statement(r, <<"Total Revenue", "Net Income">>, MaxPeriods,
                        [i \in 1 .. MaxPeriods |->
                            IF i % 2 = 0 THEN NaN ELSE PyFloat(900000 + i)]),
              Statement(r, <<"Net Income", "Total Revenue">>, MaxPeriods,
                        [i \in 1 .. MaxPeriods |-> PyFloat(1250000)])}
        ELSE {Statement(r, <<name>>, 1, <<>>)}

Completions(r) == {[asof |-> r, text |-> "Tren naik."]}

----------------------------------------------------------------------------
(* analyze_stock_data *)

\* PromptTemplate(template).format(technical_data=..., fundamental_data=...)
FormatPrompt(technical, fundamental) ==
    << "Answer in bahasa indonesia",
       "Analyze the following stock data using both technical and fundamental analysis:\n",
       "Technical Data (Open and Close prices):\n" >>
    \o technical
    \o << "\n\n", "Fundamental Data:\n" >>
    \o fundamental
    \o << "\n\n", "Provide insights on:\n", "1. Overall trend\n",
          "2. Key technical indicators\n", "3. Important fundamental metrics\n",
          "4. Potential strengths and weaknesses\n",
          "5. Any notable patterns or anomalies" >>

----------------------------------------------------------------------------
(* The script, line by line *)

Lines == << "L103", "L105", "L108", "L109", "L110", "L113", "L114", "L115",
            "L116", "L117", "L118", "L121", "L125", "L126", "L127", "L131",
            "L140", "L169" >>

LinesEarlyHeader ==
         << "L103", "L105", "L108", "L109", "L110", "L121", "L125", "L113",
            "L114", "L115", "L116", "L117", "L118", "L126", "L127", "L131",
            "L140", "L169" >>

LinesLateStatements ==
         << "L103", "L105", "L108", "L109", "L110", "L121", "L125", "L126",
            "L127", "L113", "L114", "L115", "L116", "L117", "L118", "L131",
            "L140", "L169" >>

\* the order in which the statements of the "if analyze_button" block run
Program == Lines

\* the line that runs after line l
After(l) ==
    LET i == CHOOSE k \in 1 .. Len(Program) : Program[k] = l
    IN IF i = Len(Program) THEN "done" ELSE Program[i + 1]

StatementLines == {"L113", "L114", "L115", "L116", "L117", "L118"}

StatementAt(l) ==
    CASE l = "L113" -> "income_stmt"
      [] l = "L114" -> "quarterly_income_stmt"
      [] l = "L115" -> "balance_sheet"
      [] l = "L116" -> "quarterly_balance_sheet"
      [] l = "L117" -> "cashflow"
      [] l = "L118" -> "quarterly_cashflow"

StatementNames == {StatementAt(l) : l \in StatementLines}

\* the external call made by line l
CallAt(l) ==
    CASE l = "L103" -> "yf.download"
      [] l = "L105" -> "Ticker.info"
      [] l \in StatementLines -> StatementAt(l)
      [] l = "L126" -> "llm.complete"

Event(ev, call, arg) == [ev |-> ev, call |-> call, arg |-> arg]

\* a call has been started and has neither returned nor raised
InFlight == log # <<>> /\ log[Len(log)].ev = "start"

\* if analyze_button:
AlwaysTriggered(button) == TRUE

Triggered(button) == button

\* the LLM call retried until it answers
RetryCompletion(l) == IF l = "L126" THEN "L126" ELSE "aborted"

\* the LLM call's exception swallowed, the rest of the page rendered
SwallowCompletionError(l) == IF l = "L126" THEN "L131" ELSE "aborted"

\* an exception is not caught: where the script goes once line l raises

OnRaise(l) == "aborted"

Element(kind, body) == [kind |-> kind, body |-> body]

\* stock_data[["Open", "Close"]].to_string()
TechnicalAllColumns(df) == to_string(df)

TechnicalData(df) == to_string(SelectColumns(df, <<"Open", "Close">>))

\* with left_col: what line 125 and line 127 write
AnalysisHeader(sym) == Element("subheader", <<"Analysis for ", sym>>)
AnalysisBody(response) ==
    Element("markdown", <<"<div class=\"stock-analysis\">", response.text, "</div>">>)

\* with right_col: lines 131 and 132-138
GraphHeader == Element("subheader", <<"Stock Data Graph">>)
Candlestick(sym, df) ==
    Element("plotly_chart",
            [trace |-> "Candlestick", asof |-> df.asof, x |-> df.index,
             open |-> Column(df, "Open"), high |-> Column(df, "High"),
             low |-> Column(df, "Low"), close |-> Column(df, "Close"),
             title |-> <<sym, " Stock Candlestick Chart">>,
             xaxis_title |-> "Date", yaxis_title |-> "Price (IDR)"])

StatementLabel(name) ==
    CASE name = "income_stmt" -> "Income Statement"
      [] name = "quarterly_income_stmt" -> "Quarterly Income Statement"
      [] name = "balance_sheet" -> "Balance Sheet"
      [] name = "quarterly_balance_sheet" -> "Quarterly Balance Sheet"
      [] name = "cashflow" -> "Cash Flow Statement"
      [] name = "quarterly_cashflow" -> "Quarterly Cash Flow Statement"

\* the order in which lines 151-167 show the statements
DisplayOrder == << "income_stmt", "quarterly_income_stmt", "balance_sheet",
                   "quarterly_balance_sheet", "cashflow", "quarterly_cashflow" >>

\* with tab2: lines 142-167
Tab2Elements(df, fundamental, stmts) ==
    << Element("subheader", <<"Stock Data">>),
       Element("dataframe", df),
       Element("subheader", <<"Stock Information">>),
       Element("markdown", fundamental),
       Element("subheader", <<"Financial Statements">>) >>
    \o Flatten([i \in 1 .. Len(DisplayOrder) |->
          << Element("metric", <<StatementLabel(DisplayOrder[i])>>),
             Element("dataframe", stmts[DisplayOrder[i]]) >>])

RevenueHeader == Element("subheader", <<"Total Revenue per Quarter">>)
RevenueNotice ==
    Element("write", <<"Row 'Total Revenue' not found in the quarterly income statement.">>)

\* lines 173-177: the bar chart of a revenue series
RevenueChart(sym, total_revenue, asof) ==
    Element("plotly_chart",
            [trace |-> "Bar", asof |-> asof,
             x |-> [i \in 1 .. Len(total_revenue) |-> total_revenue[i].x],
             y |-> [i \in 1 .. Len(total_revenue) |-> total_revenue[i].y],
             name |-> "Total Revenue",
             title |-> <<sym, " Total Revenue per Quarter">>,
             xaxis_title |-> "Quarter", yaxis_title |-> "Amount (IDR)"])

\* total_revenue = quarterly_income_stmt.loc['Total Revenue'].dropna()
TotalRevenueFilled(qis) == FillNa(Loc(qis, "Total Revenue"))

TotalRevenue(qis) == DropNa(Loc(qis, "Total Revenue"))

Tab3AlwaysChart(sym, qis) ==
    << RevenueHeader,
       RevenueChart(sym, IF HasRow(qis, "Total Revenue")
                             THEN TotalRevenue(qis) ELSE <<>>, qis.asof) >>

\* with tab3: lines 171-179
Tab3Elements(sym, qis) ==
    IF HasRow(qis, "Total Revenue")
        THEN << RevenueHeader, RevenueChart(sym, TotalRevenue(qis), qis.asof) >>
        ELSE << RevenueHeader, RevenueNotice >>

----------------------------------------------------------------------------
(* Actions *)

Abort(l, what) ==
    /\ pc' = OnRaise(l)
    /\ failed' = what
    /\ spinner' = FALSE

Advance(l) ==
    /\ pc' = After(l)
    /\ UNCHANGED failed

\* Lines 81-98: Streamlit runs the script from the top on every interaction.
\* Names and containers of the run before are gone; the button is True only
\* in the run its press caused.
ScriptRun ==
    /\ pc \in {"done", "aborted"}
    /\ run < MaxRuns
    /\ run' = run + 1
    /\ \E sym \in Symbols, sd \in Dates, ed \in Dates, pressed \in BOOLEAN :
          /\ symbol' = sym
          /\ start_date' = sd
          /\ end_date' = ed
          /\ analyze_button' = pressed
          /\ pc' = IF Triggered(pressed) THEN "L103" ELSE "done"
          /\ spinner' = Triggered(pressed)
    /\ stock_data' = Unset
    /\ info' = Unset
    /\ technical_data' = Unset
    /\ fundamental_data' = Unset
    /\ fundamental_data_str' = Unset
    /\ statements' = [n \in StatementNames |-> Unset]
    /\ analysis' = Unset
    /\ left_col' = <<>>
    /\ right_col' = <<>>
    /\ tab2' = <<>>
    /\ tab3' = <<>>
    /\ log' = <<>>
    /\ failed' = "none"

\* Line 103: yf.download(symbol, start=start_date, end=end_date)
DownloadStart ==
    /\ pc = "L103"
    /\ ~InFlight
    /\ log' = Append(log, Event("start", "yf.download",
                                <<symbol, start_date, end_date>>))
    /\ UNCHANGED <<pc, run, inputVars, dataVars, spinner, viewVars, failed>>

DownloadReturn ==
    /\ pc = "L103"
    /\ InFlight
    /\ \E df \in PriceFrames(run) : stock_data' = df
    /\ log' = Append(log, Event("return", "yf.download", <<>>))
    /\ Advance("L103")
    /\ UNCHANGED <<run, inputVars, info, technical_data, fundamental_data,
                   fundamental_data_str, statements, analysis, spinner, viewVars>>

\* Lines 104-105: yf.Ticker(symbol).info
InfoStart ==
    /\ pc = "L105"
    /\ ~InFlight
    /\ log' = Append(log, Event("start", "Ticker.info", <<symbol>>))
    /\ UNCHANGED <<pc, run, inputVars, dataVars, spinner, viewVars, failed>>

InfoReturn ==
    /\ pc = "L105"
    /\ InFlight
    /\ \E m \in InfoSamples : info' = m
    /\ log' = Append(log, Event("return", "Ticker.info", <<>>))
    /\ Advance("L105")
    /\ UNCHANGED <<run, inputVars, stock_data, technical_data, fundamental_data,
                   fundamental_data_str, statements, analysis, spinner, viewVars>>

\* Line 108
SelectOpenClose ==
    /\ pc = "L108"
    /\ IF HasColumns(stock_data, <<"Open", "Close">>)
          THEN /\ technical_data' = TechnicalData(stock_data)
               /\ Advance("L108")
               /\ UNCHANGED spinner
          ELSE /\ Abort("L108", "stock_data[['Open', 'Close']]")
               /\ UNCHANGED technical_data
    /\ UNCHANGED <<run, inputVars, stock_data, info, fundamental_data,
                   fundamental_data_str, statements, analysis, viewVars, log>>

\* Line 109
Extract ==
    /\ pc = "L109"
    /\ fundamental_data' = extract_specific_fundamental_data(info)
    /\ Advance("L109")
    /\ UNCHANGED <<run, inputVars, stock_data, info, technical_data,
                   fundamental_data_str, statements, analysis, spinner, viewVars, log>>

\* Line 110
Format ==
    /\ pc = "L110"
    /\ fundamental_data_str' = format_specific_fundamental_data(fundamental_data)
    /\ Advance("L110")
    /\ UNCHANGED <<run, inputVars, stock_data, info, technical_data,
                   fundamental_data, statements, analysis, spinner, viewVars, log>>

\* Lines 113-118: each statement property fetches when read
StatementStart ==
    /\ pc \in StatementLines
    /\ ~InFlight
    /\ log' = Append(log, Event("start", StatementAt(pc), <<symbol>>))
    /\ UNCHANGED <<pc, run, inputVars, dataVars, spinner, viewVars, failed>>

StatementReturn ==
    /\ pc \in StatementLines
    /\ InFlight
    /\ \E table \in StatementSamples(run, StatementAt(pc)) :
          statements' = [statements EXCEPT ![StatementAt(pc)] = table]
    /\ log' = Append(log, Event("return", StatementAt(pc), <<>>))
    /\ Advance(pc)
    /\ UNCHANGED <<run, inputVars, stock_data, info, technical_data,
                   fundamental_data, fundamental_data_str, analysis, spinner, viewVars>>

\* Line 121, the last line of the spinner block: the spinner goes away
Columns ==
    /\ pc = "L121"
    /\ spinner' = FALSE
    /\ Advance("L121")
    /\ UNCHANGED <<run, inputVars, dataVars, viewVars, log>>

\* Line 125
LeftHeader ==
    /\ pc = "L125"
    /\ left_col' = Append(left_col, AnalysisHeader(symbol))
    /\ Advance("L125")
    /\ UNCHANGED <<run, inputVars, dataVars, spinner, right_col, tab2, tab3, log>>

\* Line 126 into lines 22-42: the prompt is built and llm.complete is called
CompleteStart ==
    /\ pc = "L126"
    /\ ~InFlight
    /\ log' = Append(log, Event("start", "llm.complete",
                                FormatPrompt(technical_data, fundamental_data_str)))
    /\ UNCHANGED <<pc, run, inputVars, dataVars, spinner, viewVars, failed>>

\* Lines 42-44 and 126
CompleteReturn ==
    /\ pc = "L126"
    /\ InFlight
    /\ \E response \in Completions(run) : analysis' = response
    /\ log' = Append(log, Event("return", "llm.complete", <<>>))
    /\ Advance("L126")
    /\ UNCHANGED <<run, inputVars, stock_data, info, technical_data, fundamental_data,
                   fundamental_data_str, statements, spinner, viewVars>>

\* Any call in flight can raise; nothing in the script catches it.
Raise ==
    /\ InFlight
    /\ log' = Append(log, Event("raise", CallAt(pc), <<>>))
    /\ Abort(pc, CallAt(pc))
    /\ UNCHANGED <<run, inputVars, dataVars, viewVars>>

\* Line 127
LeftBody ==
    /\ pc = "L127"
    /\ left_col' = Append(left_col, AnalysisBody(analysis))
    /\ Advance("L127")
    /\ UNCHANGED <<run, inputVars, dataVars, spinner, right_col, tab2, tab3, log>>

\* Lines 129-138
RightCol ==
    /\ pc = "L131"
    /\ IF HasColumns(stock_data, <<"Open", "High", "Low", "Close">>)
          THEN /\ right_col' = right_col \o <<GraphHeader, Candlestick(symbol, stock_data)>>
               /\ Advance("L131")
               /\ UNCHANGED spinner
          ELSE /\ right_col' = Append(right_col, GraphHeader)
               /\ Abort("L131", "stock_data['High']")
    /\ UNCHANGED <<run, inputVars, dataVars, left_col, tab2, tab3, log>>

\* Lines 140-167
Tab2 ==
    /\ pc = "L140"
    /\ tab2' = tab2 \o Tab2Elements(stock_data, fundamental_data_str, statements)
    /\ Advance("L140")
    /\ UNCHANGED <<run, inputVars, dataVars, spinner, left_col, right_col, tab3, log>>

\* Lines 169-179
Tab3 ==
    /\ pc = "L169"
    /\ tab3' = tab3 \o Tab3Elements(symbol, statements["quarterly_income_stmt"])
    /\ Advance("L169")
    /\ UNCHANGED <<run, inputVars, dataVars, spinner, left_col, right_col, tab2, log>>

\* The page as first loaded: the script has run once with the button unpressed.
Init ==
    /\ pc = "done"
    /\ run = 0
    /\ analyze_button = FALSE
    /\ symbol = "AAPL"
    /\ start_date = "2024-01-01"
    /\ end_date = "2024-06-30"
    /\ stock_data = Unset
    /\ info = Unset
    /\ technical_data = Unset
    /\ fundamental_data = Unset
    /\ fundamental_data_str = Unset
    /\ statements = [n \in StatementNames |-> Unset]
    /\ analysis = Unset
    /\ spinner = FALSE
    /\ left_col = <<>>
    /\ right_col = <<>>
    /\ tab2 = <<>>
    /\ tab3 = <<>>
    /\ log = <<>>
    /\ failed = "none"

Next ==
    \/ ScriptRun
    \/ DownloadStart \/ DownloadReturn
    \/ InfoStart \/ InfoReturn
    \/ SelectOpenClose \/ Extract \/ Format
    \/ StatementStart \/ StatementReturn
    \/ Columns \/ LeftHeader
    \/ CompleteStart \/ CompleteReturn
    \/ Raise
    \/ LeftBody \/ RightCol \/ Tab2 \/ Tab3

Spec == Init /\ [][Next]_vars

----------------------------------------------------------------------------
(* The extractor and the formatter on every metadata mapping: the script   *)
(* stands at line 109 of a first triggered run.                            *)

FullFrame(r) ==
    CHOOSE df \in PriceFrames(r) : df.columns = OHLCV /\ Len(df.index) = MaxRows

LogThrough(calls, sym, sd, ed) ==
    Flatten([i \in 1 .. Len(calls) |->
        << Event("start", calls[i],
                 IF calls[i] = "yf.download" THEN <<sym, sd, ed>> ELSE <<sym>>),
           Event("return", calls[i], <<>>) >>])

InitFund ==
    /\ pc = "L109"
    /\ run = 1
    /\ analyze_button = TRUE
    /\ symbol = "AAPL"
    /\ start_date = "2024-01-01"
    /\ end_date = "2024-06-30"
    /\ stock_data = FullFrame(1)
    /\ info \in AllDetails
    /\ technical_data = TechnicalData(stock_data)
    /\ fundamental_data = Unset
    /\ fundamental_data_str = Unset
    /\ statements = [n \in StatementNames |-> Unset]
    /\ analysis = Unset
    /\ spinner = TRUE
    /\ left_col = <<>>
    /\ right_col = <<>>
    /\ tab2 = <<>>
    /\ tab3 = <<>>
    /\ log = LogThrough(<<"yf.download", "Ticker.info">>, symbol, start_date, end_date)
    /\ failed = "none"

NextFund == Extract \/ Format

SpecFund == InitFund /\ [][NextFund]_vars

(* The revenue chart on every quarterly income statement: the script       *)
(* stands at line 169 of a first triggered run.                            *)

InitRevenue ==
    /\ pc = "L169"
    /\ run = 1
    /\ analyze_button = TRUE
    /\ symbol \in Symbols
    /\ start_date = "2024-01-01"
    /\ end_date = "2024-06-30"
    /\ stock_data = FullFrame(1)
    /\ info = [f \in TrackedFields |-> Canonical(f)]
    /\ technical_data = TechnicalData(stock_data)
    /\ fundamental_data = extract_specific_fundamental_data(info)
    /\ fundamental_data_str = format_specific_fundamental_data(fundamental_data)
    /\ \E qis \in AllQuarterlyIncome(1) :
          statements = [n \in StatementNames |->
                           IF n = "quarterly_income_stmt" THEN qis
                           ELSE CHOOSE t \in StatementSamples(1, n) : TRUE]
    /\ analysis \in Completions(1)
    /\ spinner = FALSE
    /\ left_col = <<AnalysisHeader(symbol), AnalysisBody(analysis)>>
    /\ right_col = <<GraphHeader, Candlestick(symbol, stock_data)>>
    /\ tab2 = Tab2Elements(stock_data, fundamental_data_str, statements)
    /\ tab3 = <<>>
    /\ log = SubSeq(LogThrough(<<"yf.download", "Ticker.info">> \o DisplayOrder,
                               symbol, start_date, end_date), 1, 16)
             \o << Event("start", "llm.complete",
                         FormatPrompt(technical_data, fundamental_data_str)),
                   Event("return", "llm.complete", <<>>) >>
    /\ failed = "none"

NextRevenue == Tab3

SpecRevenue == InitRevenue /\ [][NextRevenue]_vars

----------------------------------------------------------------------------
(* Vocabulary of the properties *)

IsSet(x) == x # Unset

Positions(text, piece) == {i \in 1 .. Len(text) : text[i] = piece}

\* part occurs in text as a run of consecutive pieces
Contains(text, part) ==
    \E i \in 0 .. Len(text) - Len(part) : SubSeq(text, i + 1, i + Len(part)) = part

Count(ev, call) ==
    Cardinality({i \in 1 .. Len(log) : log[i].ev = ev /\ log[i].call = call})

Started(call) == Count("start", call) > 0
Returned(call) == Count("return", call) > 0

AnyRendered == left_col # <<>> \/ right_col # <<>> \/ tab2 # <<>> \/ tab3 # <<>>

RunEnded == pc \in {"done", "aborted"}

FetchCalls == {"yf.download", "Ticker.info"} \cup StatementNames

\* where extract_specific_fundamental_data puts provider field f
Slot(record, f) ==
    CASE f = "currentPrice" -> record["Current Price (Harga Saham Saat Ini)"]
      [] f = "marketCap" -> record["Market Cap (Kapitalisasi Pasar)"]
      [] f = "trailingPE" -> record["Price to Earnings Ratio (P/E Ratio)"]["Trailing P/E"]
      [] f = "forwardPE" -> record["Price to Earnings Ratio (P/E Ratio)"]["Forward P/E"]
      [] f = "dividendYield" -> record["Dividend Yield (Hasil Dividen)"]
      [] f = "returnOnEquity" -> record["Return on Equity (ROE)"]

----------------------------------------------------------------------------
(* C1 *)

\* C1: for every metadata mapping, the extracted record has exactly the 5
\* top-level keys; the slot of a tracked field holds "N/A" exactly when the
\* field is missing from the mapping, and holds the mapping's value unchanged
\* when it is present.
C1_ExtractSentinelExactlyForMissing ==
    IsSet(fundamental_data) =>
        /\ Cardinality(DOMAIN fundamental_data) = 5
        /\ DOMAIN fundamental_data =
               {"Current Price (Harga Saham Saat Ini)",
                "Market Cap (Kapitalisasi Pasar)",
                "Price to Earnings Ratio (P/E Ratio)",
                "Dividend Yield (Hasil Dividen)",
                "Return on Equity (ROE)"}
        /\ DOMAIN fundamental_data["Price to Earnings Ratio (P/E Ratio)"] =
               {"Trailing P/E", "Forward P/E"}
        /\ \A f \in TrackedFields :
              /\ f \in DOMAIN info => Slot(fundamental_data, f) = info[f]
              /\ f \notin DOMAIN info => Slot(fundamental_data, f) = PyStr("N/A")
              /\ Slot(fundamental_data, f) = PyStr("N/A") <=> f \notin DOMAIN info

\* the extractor has run on a mapping that has trailingPE and dividendYield
\* and lacks forwardPE and marketCap
C1_Witness ==
    /\ IsSet(fundamental_data)
    /\ {"trailingPE", "dividendYield"} \subseteq DOMAIN info
    /\ {"forwardPE", "marketCap"} \cap DOMAIN info = {}

----------------------------------------------------------------------------
(* C7 *)

FormatLabels ==
    << "**Current Price (Harga Saham Saat Ini)**: ",
       "**Market Cap (Kapitalisasi Pasar)**: ",
       "  - Trailing P/E: ", "  - Forward P/E: ",
       "**Dividend Yield (Hasil Dividen)**: ",
       "**Return on Equity (ROE)**: " >>

FormatFields == << "currentPrice", "marketCap", "trailingPE", "forwardPE",
                   "dividendYield", "returnOnEquity" >>

\* the printed form of the values whose digits are known outright
KnownPrint(v, printed) ==
    /\ v = PyStr("N/A") => printed = "N/A"
    /\ v = PyFloat(200) => printed = "0.02"
    /\ v = PyFloat(-14700) => printed = "-1.47"
    /\ v = PyInt(150) => printed = "150"
    /\ v = PyInt(0) => printed = "0"
    /\ v = None => printed = "None"

\* C7: the formatter's output holds each of the six labels once, in the
\* order Current Price, Market Cap, Trailing P/E, Forward P/E, Dividend
\* Yield, Return on Equity, each directly followed by its value as stored;
\* the Dividend Yield and ROE values are unscaled and directly followed by
\* "%"; a sentinel is printed as N/A.
C7_FormatOrderAndRawPercent ==
    IsSet(fundamental_data_str) =>
        LET out == fundamental_data_str
        IN /\ \A k \in 1 .. 6 :
                 /\ Cardinality(Positions(out, FormatLabels[k])) = 1
                 /\ \A i \in Positions(out, FormatLabels[k]) :
                       /\ i + 1 <= Len(out)
                       /\ out[i + 1] = Str(Slot(fundamental_data, FormatFields[k]))
                       /\ KnownPrint(Slot(fundamental_data, FormatFields[k]), out[i + 1])
                       /\ k >= 5 => (i + 2 <= Len(out) /\ out[i + 2] = "%")
           /\ \A k \in 1 .. 5 :
                 \A i \in Positions(out, FormatLabels[k]),
                    j \in Positions(out, FormatLabels[k + 1]) : i < j

\* the formatter has run on a record with a 0.02 dividend yield and a
\* sentinel for ROE
C7_Witness ==
    /\ IsSet(fundamental_data_str)
    /\ Slot(fundamental_data, "dividendYield") = PyFloat(200)
    /\ Slot(fundamental_data, "returnOnEquity") = PyStr("N/A")

----------------------------------------------------------------------------
(* C5 *)

\* C5: when the quarterly income statement has a Total Revenue row, the bar
\* chart's series holds exactly the periods whose value is not missing, in
\* the statement's order, each with its value.
C5_RevenueSeriesDropsExactlyMissing ==
    LET qis == statements["quarterly_income_stmt"]
    IN (tab3 # <<>> /\ "Total Revenue" \in Range(qis.index)) =>
        LET rows == {i \in 1 .. Len(qis.index) : qis.index[i] = "Total Revenue"}
            val(k) == qis.cells[CHOOSE i \in rows : TRUE][qis.columns[k]]
            kept == {k \in 1 .. Len(qis.columns) : val(k).t \notin {"nan", "none"}}
        IN /\ Len(tab3) = 2
           /\ tab3[2].kind = "plotly_chart"
           /\ tab3[2].body.trace = "Bar"
           /\ Len(tab3[2].body.x) = Cardinality(kept)
           /\ Len(tab3[2].body.y) = Cardinality(kept)
           /\ \A k \in kept :
                 LET j == Cardinality({m \in kept : m <= k})
                 IN /\ tab3[2].body.x[j] = qis.columns[k]
                    /\ tab3[2].body.y[j] = val(k)

\* the chart was drawn from a row whose second period is missing and whose
\* first and third are not
C5_Witness ==
    LET qis == statements["quarterly_income_stmt"]
    IN /\ tab3 # <<>>
       /\ IsSet(qis)
       /\ Len(qis.columns) >= 3
       /\ \E i \in 1 .. Len(qis.index) :
             /\ qis.index[i] = "Total Revenue"
             /\ qis.cells[i][qis.columns[1]] # NaN
             /\ qis.cells[i][qis.columns[2]] = NaN
             /\ qis.cells[i][qis.columns[3]] # NaN

----------------------------------------------------------------------------
(* C2 *)

\* C2 as stated: a trigger's run ends with exactly one narrative call made.
C2_ExactlyOncePerTrigger ==
    (analyze_button /\ RunEnded) => Count("start", "llm.complete") = 1

\* C2, amended: the narrative call is made at most once per trigger; a
\* trigger that ran to the end made it exactly once; a trigger's run ends
\* with no narrative call exactly when a fetch or the Open/Close selection
\* raised.
C2_AtMostOnceAndOnceWhenFetchesSucceed ==
    /\ Count("start", "llm.complete") <= 1
    /\ (analyze_button /\ pc = "done") => Count("start", "llm.complete") = 1
    /\ (analyze_button /\ RunEnded) =>
          (Count("start", "llm.complete") = 0
              <=> failed \in FetchCalls \cup {"stock_data[['Open', 'Close']]"})

\* a trigger's run ended after its one narrative call returned
C2_Witness ==
    /\ analyze_button
    /\ pc = "done"
    /\ Count("return", "llm.complete") = 1

----------------------------------------------------------------------------
(* C3 *)

\* C3 as stated: when a price fetch, metadata fetch, statement fetch,
\* Open/Close selection or LLM call fails, no region has received content.
C3_NoPartialOutput ==
    failed \in FetchCalls \cup {"stock_data[['Open', 'Close']]", "llm.complete"}
        => ~AnyRendered

\* C3, amended: a failing price fetch, metadata fetch, statement fetch or
\* Open/Close selection ends the run with no region having received
\* content; a failing LLM call ends it with the "Analysis for <symbol>"
\* subheader in the left column of Region 1 and nothing else anywhere.
C3_NoOutputBeforeHeaderOnly ==
    /\ failed \in FetchCalls \cup {"stock_data[['Open', 'Close']]"} =>
          (~AnyRendered /\ pc = "aborted")
    /\ failed = "llm.complete" =>
          /\ pc = "aborted"
          /\ Len(left_col) = 1
          /\ left_col[1].kind = "subheader"
          /\ left_col[1].body = <<"Analysis for ", symbol>>
          /\ right_col = <<>>
          /\ tab2 = <<>>
          /\ tab3 = <<>>

\* the LLM call of a trigger raised
C3_Witness ==
    /\ failed = "llm.complete"
    /\ pc = "aborted"
    /\ log[Len(log)] = Event("raise", "llm.complete", <<>>)

----------------------------------------------------------------------------
(* C4 *)

KindsOf(elements) == [i \in 1 .. Len(elements) |-> elements[i].kind]

\* C4: when the run reaches the end with a quarterly income statement that
\* has no Total Revenue row, Region 3 holds its subheader and the literal
\* notice and no chart, and the narrative, the candlestick chart, the price
\* table, the fundamental text and the six statement tables are all there.
C4_MissingRevenueRowNotice ==
    (analyze_button /\ pc = "done"
        /\ "Total Revenue" \notin Range(statements["quarterly_income_stmt"].index)) =>
        /\ KindsOf(tab3) = <<"subheader", "write">>
        /\ tab3[2].body =
              <<"Row 'Total Revenue' not found in the quarterly income statement.">>
        /\ KindsOf(left_col) = <<"subheader", "markdown">>
        /\ left_col[2].body[2] = analysis.text
        /\ KindsOf(right_col) = <<"subheader", "plotly_chart">>
        /\ right_col[2].body.trace = "Candlestick"
        /\ right_col[2].body.x = stock_data.index
        /\ KindsOf(tab2) = << "subheader", "dataframe", "subheader", "markdown",
                              "subheader", "metric", "dataframe", "metric",
                              "dataframe", "metric", "dataframe", "metric",
                              "dataframe", "metric", "dataframe", "metric",
                              "dataframe" >>
        /\ tab2[2].body = stock_data
        /\ tab2[4].body = fundamental_data_str
        /\ <<tab2[7].body, tab2[9].body, tab2[11].body, tab2[13].body,
             tab2[15].body, tab2[17].body>> =
           <<statements["income_stmt"], statements["quarterly_income_stmt"],
             statements["balance_sheet"], statements["quarterly_balance_sheet"],
             statements["cashflow"], statements["quarterly_cashflow"]>>

\* a trigger's run ended with a statement that has no Total Revenue row
C4_Witness ==
    /\ analyze_button
    /\ pc = "done"
    /\ "Total Revenue" \notin Range(statements["quarterly_income_stmt"].index)
    /\ tab3 # <<>>

----------------------------------------------------------------------------
(* C6 *)

\* the text rendering of the Open and the Close column of df
OpenCloseText(df) ==
    IF df.index = <<>>
        THEN << "Empty DataFrame", "\n", "Columns: [", "Open", ", ", "Close", "]",
                "\n", "Index: []" >>
        ELSE << "Open", "Close", "\n", "Date" >>
             \o Flatten([r \in 1 .. Len(df.index) |->
                    << "\n", df.index[r], Str(df.cells[r]["Open"]),
                       Str(df.cells[r]["Close"]) >>])

\* C6: the technical-data string is the text rendering of exactly the Open
\* and Close columns of the fetched price series; the prompt sent to the LLM
\* contains that string and the formatted fundamental text verbatim, and
\* that fundamental text is the one Region 2 displays.
C6_PromptCarriesBothTexts ==
    /\ IsSet(technical_data) => technical_data = OpenCloseText(stock_data)
    /\ \A i \in 1 .. Len(log) :
          (log[i].ev = "start" /\ log[i].call = "llm.complete") =>
              /\ Contains(log[i].arg, OpenCloseText(stock_data))
              /\ Contains(log[i].arg,
                          format_specific_fundamental_data(
                              extract_specific_fundamental_data(info)))
              /\ Contains(log[i].arg, fundamental_data_str)
              /\ tab2 # <<>> =>
                    (tab2[4].kind = "markdown" /\ Contains(log[i].arg, tab2[4].body))

\* the prompt of a price series with rows was sent and Region 2 was rendered
C6_Witness ==
    /\ Started("llm.complete")
    /\ Len(stock_data.index) >= 2
    /\ DOMAIN info = TrackedFields \cup {"longName"}
    /\ tab2 # <<>>

----------------------------------------------------------------------------
(* C8 *)

CallOrder == << "yf.download", "Ticker.info", "income_stmt", "quarterly_income_stmt",
                "balance_sheet", "quarterly_balance_sheet", "cashflow",
                "quarterly_cashflow", "llm.complete" >>

StartsOf(events) == SelectSeq(events, LAMBDA e : e.ev = "start")

\* C8: within a trigger the price fetch, the metadata fetch, the six
\* statement fetches and the LLM call run one after another in that order:
\* a call that has started ends before anything else starts, each call
\* starts only after the one before it has returned, and the LLM call
\* starts only after the price fetch and all six statement fetches returned.
C8_CallsStrictlySequential ==
    /\ \A i \in 1 .. Len(log) :
          log[i].ev = "start" =>
              /\ i < Len(log) =>
                    (log[i + 1].ev \in {"return", "raise"}
                        /\ log[i + 1].call = log[i].call)
              /\ i > 1 => log[i - 1].ev = "return"
              /\ log[i].call = "llm.complete" =>
                    \A c \in {"yf.download"} \cup StatementNames :
                        \E j \in 1 .. i - 1 :
                            log[j].ev = "return" /\ log[j].call = c
    /\ Len(StartsOf(log)) <= Len(CallOrder)
    /\ \A k \in 1 .. Len(StartsOf(log)) : StartsOf(log)[k].call = CallOrder[k]

\* the LLM call is in flight
C8_Witness ==
    /\ InFlight
    /\ log[Len(log)].call = "llm.complete"
    /\ Len(log) = 17

----------------------------------------------------------------------------
(* C9 *)

\* C9: a run without the trigger makes no fetch and no LLM call; a trigger
\* that runs to the end has fetched the price series, the metadata and each
\* of the six statements and called the LLM once each in that very run, for
\* the symbol and dates of that run; and every provider or LLM answer held
\* or rendered in a run was produced in that run.
C9_NoCachingAcrossTriggers ==
    /\ ~analyze_button => (log = <<>> /\ ~AnyRendered)
    /\ (analyze_button /\ pc = "done") =>
          /\ \A k \in 1 .. Len(CallOrder) :
                Count("start", CallOrder[k]) = 1 /\ Count("return", CallOrder[k]) = 1
          /\ log[1].arg = <<symbol, start_date, end_date>>
    /\ IsSet(stock_data) => stock_data.asof = run
    /\ \A n \in StatementNames : IsSet(statements[n]) => statements[n].asof = run
    /\ IsSet(analysis) => analysis.asof = run
    /\ \A i \in 1 .. Len(right_col) :
          right_col[i].kind = "plotly_chart" => right_col[i].body.asof = run
    /\ \A i \in 1 .. Len(tab2) :
          tab2[i].kind = "dataframe" => tab2[i].body.asof = run
    /\ \A i \in 1 .. Len(tab3) :
          tab3[i].kind = "plotly_chart" => tab3[i].body.asof = run
    /\ Len(left_col) >= 2 => left_col[2].body[2] = analysis.text

\* a second run, triggered, has rendered everything
C9_Witness ==
    /\ run >= 2
    /\ analyze_button
    /\ pc = "done"
    /\ tab3 # <<>>

----------------------------------------------------------------------------
(* C10 *)

\* C10: no region has content and the LLM has not been called unless the
\* price fetch, the metadata fetch, the Open/Close selection and all six
\* statement fetches of this run have completed; and with the LLM call
\* failed, the right column, Region 2 and Region 3 are empty.
C10_NothingBeforeAllFetches ==
    /\ (AnyRendered \/ Started("llm.complete")) =>
          /\ \A c \in FetchCalls : Returned(c)
          /\ IsSet(technical_data)
          /\ IsSet(stock_data)
          /\ IsSet(info)
          /\ \A n \in StatementNames : IsSet(statements[n])
    /\ failed = "llm.complete" => (right_col = <<>> /\ tab2 = <<>> /\ tab3 = <<>>)

\* the LLM call failed after the left column got its subheader
C10_Witness ==
    /\ failed = "llm.complete"
    /\ left_col # <<>>
    /\ \A c \in FetchCalls : Returned(c)

====
